---- MODULE Spec2Model ----
(***************************************************************************)
(* Anomaly detection service: the adaptive neural detector's manager       *)
(* (app/services/anomalyDetectorManager.py), the windowed statistical      *)
(* detectors over the Redis store (app/services/anomalyDetector.py,        *)
(* app/services/anomaly_detector.py, main.py) and the aggregator           *)
(* predict_anomaly (app/api/v1/endpoints.py, main.py).                     *)
(*                                                                         *)
(* Numbers with a fraction are kept exact as integers: scores and          *)
(* severities in hundredths (0.9 is 90), times in whole seconds, response  *)
(* times in whole milliseconds.                                            *)
(***************************************************************************)
EXTENDS Integers, Sequences, FiniteSets, TLC

VARIABLES
    \* ---- AnomalyDetectorManager (anomalyDetectorManager.py) ----
    ae,                       \* "loaded", or "None" when the artifact was not found
    dynamic_known_endpoints,  \* set of endpoint names
    new_endpoint_buffer,      \* endpoint -> sequence of buffered embeddings
    normals,                  \* the reference set: sequence of embeddings
    weights,                  \* autoencoder weights: number of optimizer steps applied
    threshold,                \* [val, w, n]: value, and the weights/reference size it was computed for
    lock,                     \* NoThread, or the thread holding self.lock
    th,                       \* thread -> frame of its handle_incoming_log call
    nCalls,                   \* handle_incoming_log calls started so far
    out,                      \* the latest outcome of a handle_incoming_log call
    pre,                      \* the adaptation state when the lock was last taken
    \* ---- Redis store and the statistical detectors ----
    impl,                     \* which copy of the detectors is deployed
    now,                      \* wall clock of the store, seconds
    store,                    \* the Redis database: [counters, zsets, lists, sets, expiry]
    last,                     \* what the last detector/aggregator call did and returned
    hist,                     \* the calls made so far, oldest first
    wk                        \* worker -> frame of the detector call it is in the middle of

mgrVars == <<ae, dynamic_known_endpoints, new_endpoint_buffer, normals, weights,
             threshold, lock, th, nCalls, out, pre>>
storeVars == <<impl, now, store, last, hist, wk>>
vars == <<mgrVars, storeVars>>

\* ------------------------------------------------------------------------
\* Bounds of the model
\* ------------------------------------------------------------------------
NumThreads == 2
MaxMgrCalls == 3

Threads == 1..NumThreads
NoThread == 0

\* Request workers of the service that run detector calls at the same time.
NumWorkers == 3
Workers == 1..NumWorkers
\* A worker that is not inside a detector call.
IdleWork == [pc |-> "idle", e |-> [timestamp |-> 0], at |-> 0, n |-> 0, did |-> {}, ttl |-> FALSE]

\* =========================================================================
\* AnomalyDetectorManager
\* =========================================================================

\* self.PROMOTE_BUFFER_SIZE = 50 in the source; the model promotes at a
\* smaller size so that promotions are reached.
PROMOTE_BUFFER_SIZE == 2
\* "for _ in range(5)": optimizer steps of one fine-tuning pass.
FineTuneSteps == 5

\* Endpoints named by log texts; "k" is known in the loaded artifact.
MgrEndpoints == {"k", "u", "v"}
ArtifactKnown == {"k"}
\* "status=" field of the log text (absent means 200).
MgrStatuses == {200, 500}
\* Reconstruction errors a forward pass can give and thresholds a percentile
\* recomputation can give (an error at most the threshold is "normal").
ErrVals == {1, 3}
ThresholdVals == {2, 4}
ArtifactThreshold == 2

IdleFrame == [pc |-> "idle", endpoint |-> "", status |-> 0, emb |-> 0,
              err |-> [val |-> 0, w |-> 0], i |-> 0]

\* The state the promotion section mutates.
AdaptationState ==
    [known |-> dynamic_known_endpoints, normals |-> normals, weights |-> weights,
     threshold |-> threshold]

MgrInit ==
    /\ ae \in {"loaded", "None"}
    /\ dynamic_known_endpoints = ArtifactKnown
    /\ new_endpoint_buffer = [e \in MgrEndpoints |-> <<>>]
    /\ normals = <<0>>
    /\ weights = 0
    /\ threshold = [val |-> ArtifactThreshold, w |-> 0, n |-> 1]
    /\ lock = NoThread
    /\ th = [t \in Threads |-> IdleFrame]
    /\ nCalls = 0
    /\ out = [kind |-> "none"]
    /\ pre = AdaptationState

\* The model file at startup: present and well formed, not found, or present
\* but not loadable (truncated, not a checkpoint, a key missing).
Artifacts == {"present", "missing", "corrupt"}

\* Before __init__ ran: no manager object.
Unconstructed ==
    /\ ae = "unconstructed"
    /\ dynamic_known_endpoints = {}
    /\ new_endpoint_buffer = [e \in MgrEndpoints |-> <<>>]
    /\ normals = <<>>
    /\ weights = 0
    /\ threshold = [val |-> 0, w |-> 0, n |-> 0]
    /\ lock = NoThread
    /\ th = [t \in Threads |-> IdleFrame]
    /\ nCalls = 0
    /\ out = [kind |-> "none"]
    /\ pre = AdaptationState

\* Lines 41-59: __init__. torch.load and load_state_dict run inside a try
\* that catches FileNotFoundError only: any other exception leaves __init__.
Construct(artifact) ==
    /\ ae = "unconstructed"
    /\ CASE artifact = "present" ->
              /\ ae' = "loaded"
              /\ dynamic_known_endpoints' = ArtifactKnown
              /\ normals' = <<0>>
              /\ threshold' = [val |-> ArtifactThreshold, w |-> 0, n |-> 1]
              /\ out' = [kind |-> "constructed", artifact |-> artifact]
         [] artifact = "missing" ->
              /\ ae' = "None"
              /\ out' = [kind |-> "constructed", artifact |-> artifact]
              /\ UNCHANGED <<dynamic_known_endpoints, normals, threshold>>
         [] artifact = "corrupt" ->
              /\ out' = [kind |-> "init_raised", artifact |-> artifact]
              /\ UNCHANGED <<ae, dynamic_known_endpoints, normals, threshold>>
    /\ UNCHANGED <<new_endpoint_buffer, weights, lock, th, nCalls, storeVars>>
    /\ pre' = AdaptationState'

\* The decision of line 87.
Decide(err, thr) == IF err.val <= thr.val THEN "normal" ELSE "anomaly"

\* Lines 75-84: the model check, parsing the text, the embedding and the
\* forward pass (detect reads the weights without the lock).
Call(t, endpoint, status, errval) ==
    /\ ae \in {"loaded", "None"}
    /\ th[t].pc = "idle"
    /\ nCalls < MaxMgrCalls
    /\ nCalls' = nCalls + 1
    /\ IF ae = "None"
         THEN /\ out' = [kind |-> "error", t |-> t, msg |-> "Model not loaded."]
              /\ UNCHANGED th
         ELSE /\ th' = [th EXCEPT ![t] =
                         [pc |-> "check", endpoint |-> endpoint, status |-> status,
                          emb |-> nCalls + 1, err |-> [val |-> errval, w |-> weights],
                          i |-> 0]]
              /\ UNCHANGED out
    /\ UNCHANGED <<ae, dynamic_known_endpoints, new_endpoint_buffer, normals,
                   weights, threshold, lock, pre, storeVars>>

\* The dictionary a call returns, with the call it answers.
Result(t, decision, status_msg) ==
    [kind |-> "result", t |-> t, endpoint |-> th[t].endpoint, emb |-> th[t].emb,
     decision |-> decision, status |-> status_msg]

\* A variant that tests against the endpoints known at startup only.
CheckKnownStale(t) ==
    /\ th[t].pc = "check"
    /\ IF th[t].endpoint \in ArtifactKnown
         THEN /\ th' = [th EXCEPT ![t] = IdleFrame]
              /\ out' = Result(t, Decide(th[t].err, threshold), "known_endpoint")
         ELSE /\ th' = [th EXCEPT ![t].pc = "lock"]
              /\ UNCHANGED out
    /\ UNCHANGED <<ae, dynamic_known_endpoints, new_endpoint_buffer, normals,
                   weights, threshold, lock, nCalls, pre, storeVars>>

\* Lines 86-88: the membership test and the answer for a known endpoint,
\* outside the lock.
CheckKnown(t) ==
    /\ th[t].pc = "check"
    /\ IF th[t].endpoint \in dynamic_known_endpoints
         THEN /\ th' = [th EXCEPT ![t] = IdleFrame]
              /\ out' = Result(t, Decide(th[t].err, threshold), "known_endpoint")
         ELSE /\ th' = [th EXCEPT ![t].pc = "lock"]
              /\ UNCHANGED out
    /\ UNCHANGED <<ae, dynamic_known_endpoints, new_endpoint_buffer, normals,
                   weights, threshold, lock, nCalls, pre, storeVars>>

\* Line 92: "with self.lock" entry.
Acquire(t) ==
    /\ th[t].pc = "lock"
    /\ lock = NoThread
    /\ lock' = t
    /\ th' = [th EXCEPT ![t].pc = "append"]
    /\ pre' = AdaptationState
    /\ UNCHANGED <<ae, dynamic_known_endpoints, new_endpoint_buffer, normals,
                   weights, threshold, nCalls, out, storeVars>>

\* Exit of the "with" block and the return of line 131.
Return(t, decision, status_msg) ==
    /\ lock' = NoThread
    /\ th' = [th EXCEPT ![t] = IdleFrame]
    /\ out' = Result(t, decision, status_msg)

\* Line 125: the status message carries the buffer length and the size.
ReturnBuffered(t, n) ==
    /\ lock' = NoThread
    /\ th' = [th EXCEPT ![t] = IdleFrame]
    /\ out' = Result(t, "normal", "endpoint_buffered")
                  @@ [n |-> n, size |-> PROMOTE_BUFFER_SIZE]

\* A variant that buffers the embedding whatever the status.
BufferAppendAnyStatus(t) ==
    /\ th[t].pc = "append"
    /\ LET e == th[t].endpoint
           buf == Append(new_endpoint_buffer[e], th[t].emb)
       IN /\ new_endpoint_buffer' = [new_endpoint_buffer EXCEPT ![e] = buf]
          /\ IF Len(buf) >= PROMOTE_BUFFER_SIZE
               THEN /\ th' = [th EXCEPT ![t].pc = "promote"]
                    /\ UNCHANGED <<lock, out>>
               ELSE ReturnBuffered(t, Len(buf))
    /\ UNCHANGED <<ae, dynamic_known_endpoints, normals, weights, threshold, nCalls, pre, storeVars>>

\* Lines 93-97 and 124-129: buffer the embedding of a successful call, or
\* classify the failing call.
BufferAppend(t) ==
    /\ th[t].pc = "append"
    /\ LET e == th[t].endpoint
           buf == Append(new_endpoint_buffer[e], th[t].emb)
       IN IF th[t].status = 200
            THEN /\ new_endpoint_buffer' = [new_endpoint_buffer EXCEPT ![e] = buf]
                 /\ IF Len(buf) >= PROMOTE_BUFFER_SIZE
                      THEN /\ th' = [th EXCEPT ![t].pc = "promote"]
                           /\ UNCHANGED <<lock, out>>
                      ELSE ReturnBuffered(t, Len(buf))
            ELSE /\ Return(t, "anomaly", "unknown_endpoint_error")
                 /\ UNCHANGED new_endpoint_buffer
    /\ UNCHANGED <<ae, dynamic_known_endpoints, normals, weights, threshold, nCalls, pre, storeVars>>

\* Line 99.
Promote(t) ==
    /\ th[t].pc = "promote"
    /\ dynamic_known_endpoints' = dynamic_known_endpoints \cup {th[t].endpoint}
    /\ th' = [th EXCEPT ![t].pc = "cat"]
    /\ UNCHANGED <<ae, new_endpoint_buffer, normals, weights, threshold, lock, nCalls, out, pre, storeVars>>

\* A variant in which the buffer replaces the reference set.
CatReplace(t) ==
    /\ th[t].pc = "cat"
    /\ normals' = new_endpoint_buffer[th[t].endpoint]
    /\ th' = [th EXCEPT ![t].pc = "train", ![t].i = 0]
    /\ UNCHANGED <<ae, dynamic_known_endpoints, new_endpoint_buffer, weights,
                   threshold, lock, nCalls, out, pre, storeVars>>

\* Lines 101-102.
Cat(t) ==
    /\ th[t].pc = "cat"
    /\ normals' = normals \o new_endpoint_buffer[th[t].endpoint]
    /\ th' = [th EXCEPT ![t].pc = "train", ![t].i = 0]
    /\ UNCHANGED <<ae, dynamic_known_endpoints, new_endpoint_buffer, weights,
                   threshold, lock, nCalls, out, pre, storeVars>>

\* A variant in which the exception leaves the call with the lock held.
RaiseHoldingLock(t) ==
    /\ lock' = lock
    /\ th' = [th EXCEPT ![t] = IdleFrame]
    /\ out' = [kind |-> "raised", t |-> t, endpoint |-> th[t].endpoint, emb |-> th[t].emb]

\* An exception leaves the "with" block (the lock is released) and
\* propagates out of handle_incoming_log.
Raise(t) ==
    /\ lock' = NoThread
    /\ th' = [th EXCEPT ![t] = IdleFrame]
    /\ out' = [kind |-> "raised", t |-> t, endpoint |-> th[t].endpoint, emb |-> th[t].emb]

\* Lines 107-112: one optimizer step.
TrainStep(t) ==
    /\ th[t].pc = "train"
    /\ th[t].i < FineTuneSteps
    /\ weights' = weights + 1
    /\ th' = [th EXCEPT ![t].i = @ + 1]
    /\ UNCHANGED <<ae, dynamic_known_endpoints, new_endpoint_buffer, normals,
                   threshold, lock, nCalls, out, pre, storeVars>>

\* Lines 109-112: the forward pass, the backward pass or the optimizer raises.
TrainRaise(t) ==
    /\ th[t].pc = "train"
    /\ th[t].i < FineTuneSteps
    /\ Raise(t)
    /\ UNCHANGED <<ae, dynamic_known_endpoints, new_endpoint_buffer, normals,
                   weights, threshold, nCalls, pre, storeVars>>

\* Lines 115-120: the threshold is the 95th percentile of the errors of the
\* reference set under the new weights.
Recompute(t, val) ==
    /\ th[t].pc = "train"
    /\ th[t].i = FineTuneSteps
    /\ threshold' = [val |-> val, w |-> weights, n |-> Len(normals)]
    /\ th' = [th EXCEPT ![t].pc = "clear"]
    /\ UNCHANGED <<ae, dynamic_known_endpoints, new_endpoint_buffer, normals,
                   weights, lock, nCalls, out, pre, storeVars>>

\* Lines 117-119: the forward pass or the percentile raises.
RecomputeRaise(t) ==
    /\ th[t].pc = "train"
    /\ th[t].i = FineTuneSteps
    /\ Raise(t)
    /\ UNCHANGED <<ae, dynamic_known_endpoints, new_endpoint_buffer, normals,
                   weights, threshold, nCalls, pre, storeVars>>

\* Lines 122-123 and the return.
Clear(t) ==
    /\ th[t].pc = "clear"
    /\ new_endpoint_buffer' = [new_endpoint_buffer EXCEPT ![th[t].endpoint] = <<>>]
    /\ Return(t, "normal", "endpoint_promoted_and_model_retrained")
    /\ UNCHANGED <<ae, dynamic_known_endpoints, normals, weights, threshold, nCalls, pre, storeVars>>

\* The parts of the adaptation state the next step of thread t reads or
\* writes: the forward pass of detect (line 84) reads the weights, the test
\* of line 86 the known set and line 87 the threshold; the section of lines
\* 93-122 the buffers, the known set, the reference set, the weights and
\* the threshold.
Touches(t) ==
    CASE th[t].pc = "idle" -> {"weights"}
      [] th[t].pc = "check" ->
            IF th[t].endpoint \in dynamic_known_endpoints
              THEN {"known", "threshold"} ELSE {"known"}
      [] th[t].pc = "lock" -> {}
      [] th[t].pc = "append" -> {"buffers"}
      [] th[t].pc = "promote" -> {"known"}
      [] th[t].pc = "cat" -> {"buffers", "normals"}
      [] th[t].pc = "train" -> {"weights", "normals", "threshold"}
      [] th[t].pc = "clear" -> {"buffers"}

\* The parts among them that the step writes.
Writes(t) ==
    CASE th[t].pc \in {"idle", "check", "lock"} -> {}
      [] th[t].pc = "append" -> IF th[t].status = 200 THEN {"buffers"} ELSE {}
      [] th[t].pc = "promote" -> {"known"}
      [] th[t].pc = "cat" -> {"normals"}
      [] th[t].pc = "train" -> IF th[t].i < FineTuneSteps THEN {"weights"} ELSE {"threshold"}
      [] th[t].pc = "clear" -> {"buffers"}

\* The steps of a call in which nothing raises.
MgrStep(t) ==
    \/ \E e \in MgrEndpoints, s \in MgrStatuses, v \in ErrVals : Call(t, e, s, v)
    \/ CheckKnown(t)
    \/ Acquire(t)
    \/ BufferAppend(t)
    \/ Promote(t)
    \/ Cat(t)
    \/ TrainStep(t)
    \/ \E v \in ThresholdVals : Recompute(t, v)
    \/ Clear(t)

MgrNextOk == \E t \in Threads : MgrStep(t)

MgrNext ==
    \E t \in Threads :
        \/ MgrStep(t)
        \/ TrainRaise(t)
        \/ RecomputeRaise(t)

\* A fresh Redis database: no key.
\*   counters: key -> integer            (INCR keys)
\*   zsets:    key -> set of <<member, score>>
\*   lists:    key -> sequence, head first
\*   sets:     key -> set of members
\*   expiry:   key -> wall-clock second at which the key is removed
EmptyStore ==
    [counters |-> <<>>, zsets |-> <<>>, lists |-> <<>>, sets |-> <<>>, expiry |-> <<>>]

\* The store is not used by the manager.
StoreIdle ==
    /\ impl = "anomalyDetector"
    /\ now = 0
    /\ store = EmptyStore
    /\ last = [op |-> "none"]
    /\ hist = <<>>
    /\ wk = [w \in Workers |-> IdleWork]

\* =========================================================================
\* The Redis store (the operations of redisClient the detectors use)
\* =========================================================================

Max(a, b) == IF a >= b THEN a ELSE b
Min(a, b) == IF a <= b THEN a ELSE b

Get(f, k, default) == IF k \in DOMAIN f THEN f[k] ELSE default
Put(f, k, v) == [x \in DOMAIN f \cup {k} |-> IF x = k THEN v ELSE f[x]]
Drop(f, k) == [x \in DOMAIN f \ {k} |-> f[x]]

\* The keys that exist.
Keys(S) == DOMAIN S.counters \cup DOMAIN S.zsets \cup DOMAIN S.lists \cup DOMAIN S.sets

\* DEL: also what the store does to a key whose time to live has run out.
del(S, k) ==
    [counters |-> Drop(S.counters, k), zsets |-> Drop(S.zsets, k),
     lists |-> Drop(S.lists, k), sets |-> Drop(S.sets, k),
     expiry |-> Drop(S.expiry, k)]

\* A variant that loses the count of the key.
incrLossy(S, k) == [S EXCEPT !.counters = Put(@, k, 1)]

\* INCR key: a missing key counts from 0; the time to live is kept.
incr(S, k) == [S EXCEPT !.counters = Put(@, k, Get(@, k, 0) + 1)]

\* EXPIRE key seconds: no effect on a missing key.
expire(S, k, seconds, clock) ==
    IF k \in Keys(S) THEN [S EXCEPT !.expiry = Put(@, k, clock + seconds)] ELSE S

\* ZADD key {member: score}: a member already in the set only gets the new score.
zadd(S, k, member, score) ==
    [S EXCEPT !.zsets =
        Put(@, k, {p \in Get(@, k, {}) : p[1] # member} \cup {<<member, score>>})]

\* ZREMRANGEBYSCORE key -inf max: removes the members with score <= max
\* (both ends of the range are inclusive); an emptied set is deleted.
zremrangebyscore(S, k, max) ==
    LET kept == {p \in Get(S.zsets, k, {}) : p[2] > max}
    IN IF k \notin DOMAIN S.zsets THEN S
       ELSE IF kept = {} THEN del(S, k)
       ELSE [S EXCEPT !.zsets = Put(@, k, kept)]

\* ZCARD key.
zcard(S, k) == Cardinality(Get(S.zsets, k, {}))

\* LPUSH key value.
lpush(S, k, v) == [S EXCEPT !.lists = Put(@, k, <<v>> \o Get(@, k, <<>>))]

\* A variant of LTRIM that keeps every element.
ltrimKeepAll(S, k, stop) == S

\* LTRIM key 0 stop: keeps the elements of index 0..stop.
ltrim(S, k, stop) ==
    LET l == Get(S.lists, k, <<>>)
        kept == SubSeq(l, 1, Min(stop + 1, Len(l)))
    IN IF k \notin DOMAIN S.lists THEN S
       ELSE IF kept = <<>> THEN del(S, k)
       ELSE [S EXCEPT !.lists = Put(@, k, kept)]

\* LLEN key and LRANGE key 0 -1.
llen(S, k) == Len(Get(S.lists, k, <<>>))
lrange(S, k) == Get(S.lists, k, <<>>)

\* SISMEMBER key member and SADD key member.
sismember(S, k, m) == m \in Get(S.sets, k, {})
sadd(S, k, m) == [S EXCEPT !.sets = Put(@, k, Get(@, k, {}) \cup {m})]

\* The keys whose time to live has run out at wall-clock second "clock".
Expired(S, clock) == {k \in DOMAIN S.expiry : S.expiry[k] <= clock}

\* The store with those keys removed.
Purge(S, clock) ==
    LET live(f) == [x \in DOMAIN f \ Expired(S, clock) |-> f[x]]
    IN [counters |-> live(S.counters), zsets |-> live(S.zsets),
        lists |-> live(S.lists), sets |-> live(S.sets), expiry |-> live(S.expiry)]

\* =========================================================================
\* Events (AnomalyRequest / ApiCall)
\* =========================================================================

Event(rid, ts, ep, st, rt, client, hash) ==
    [requestId |-> rid, timestamp |-> ts, endpoint |-> ep, statusCode |-> st,
     responseTime |-> rt, authCompanyId |-> client, schemaHash |-> hash]

\* A variant that buckets by the second instead.
currentSecond(e) == e.timestamp

\* timestamp.strftime("%Y-%m-%dT%H:%M"): the clock minute of the event.
currentMinute(e) == e.timestamp \div 60

\* The copies of the detectors in the repository: anomalyDetector.py (used by
\* app/api/v1/endpoints.py), anomaly_detector.py and main.py.
Impls == {"anomalyDetector", "anomaly_detector", "main"}

\* Wall-clock seconds at which calls reach the service, and how long before
\* that an event's own timestamp may lie (late delivery).
ClockPoints == {0, 30, 59, 60, 125}
EventLags == {0, 60}

\* The store's clock advances; keys whose time to live ran out disappear.
Tick(t) ==
    /\ t \in ClockPoints
    /\ t > now
    /\ now' = t
    /\ store' = Purge(store, t)
    /\ UNCHANGED <<impl, last, hist, wk, mgrVars>>

\* =========================================================================
\* The statistical detectors and the simulated autoencoder
\* =========================================================================

\* Program constants.
timeWindowSeconds == 60          \* rate and error-rate keys; repetitive window of anomalyDetector.py
time_window_seconds == 30        \* repetitive window of anomaly_detector.py and main.py
ExpiryGrace == 5                 \* "timeWindowSeconds + 5"
requestCountThreshold == 2       \* anomalyDetector.py and anomaly_detector.py
request_count_threshold == 20    \* main.py
latencyThreshold == 150          \* milliseconds
ResponseTimeCeiling == 50        \* milliseconds; "responseTime > 50.0"
NewSchemaError == 85             \* 0.85
NormalError == 10                \* 0.1
HighLatencyBase == 90            \* 0.9
ReconstructionThreshold == 80    \* "reconstructionError > 0.8"
RateSeverity == 90               \* max(anomalyScore, 0.9)
RepetitiveSeverity == 95         \* max(anomalyScore, 0.95)
LatencySeverity == 85            \* max(anomalyScore, 0.85)
ServerErrorSeverity == 98        \* 0.98 if "SERVER" in errorAnomaly.type
ClientErrorSeverity == 90        \* else 0.9
ScoreCap == 100                  \* min(1.0, anomalyScore)

\* Thresholds and window size of the source, scaled down so that a few calls
\* cross them: requestRateThreshold is 10 (anomalyDetector.py) or 100
\* (anomaly_detector.py, main.py), requestWindowSize is 100,
\* clientErrorThreshold is 10 and serverErrorThreshold is 5.
requestRateThreshold == 2
requestWindowSize == 3
clientErrorThreshold == 2
serverErrorThreshold == 1

\* ---- keys (the f-strings of the detectors) ----
schemaKey(e) == <<"schema_hashes", e.endpoint>>
rateKey(e) == <<"rate", e.endpoint, currentMinute(e)>>
repetitiveKey(e) == <<"repetitive", e.authCompanyId, e.endpoint>>
latencyKey(e) == <<"latency_window", e.endpoint>>
clientRateKey(e) == <<"client_error_rate", e.endpoint, currentMinute(e)>>
\* A variant in which server errors are counted under the client-error key.
serverRateKeyShared(e) == <<"client_error_rate", e.endpoint, currentMinute(e)>>
serverRateKey(e) == <<"server_error_rate", e.endpoint, currentMinute(e)>>

\* ---- getAutoEncoderReconstructionError ----
\* A variant that ignores the excess over the ceiling.
HighLatencyErrorFlat(rt) == HighLatencyBase

\* 0.9 + (responseTime - 50.0) / 100.0, in hundredths.
HighLatencyError(rt) == HighLatencyBase + (rt - ResponseTimeCeiling)

getAutoEncoderReconstructionError(S, e) ==
    IF e.responseTime > ResponseTimeCeiling
      THEN [S |-> S, val |-> HighLatencyError(e.responseTime)]
      ELSE IF ~sismember(S, schemaKey(e), e.schemaHash)
             THEN [S |-> sadd(S, schemaKey(e), e.schemaHash), val |-> NewSchemaError]
             ELSE [S |-> S, val |-> NormalError]

\* ---- checkSuddenSpikesInRequests / check_increased_request_rate ----
\* A variant with an inclusive boundary.
RateExceededInclusive(currentRate) == currentRate >= requestRateThreshold

\* "if currentRate > requestRateThreshold".
RateExceeded(currentRate) == currentRate > requestRateThreshold

checkSuddenSpikesInRequests(S, e, clock) ==
    LET rateKeyOfE == rateKey(e)
        S1 == incr(S, rateKeyOfE)
        currentRate == S1.counters[rateKeyOfE]
        S2 == IF currentRate = 1 THEN expire(S1, rateKeyOfE, timeWindowSeconds, clock) ELSE S1
    IN [S |-> S2, count |-> currentRate,
        anomaly |-> IF RateExceeded(currentRate) THEN <<"INCREASED_REQUEST_RATE">> ELSE <<>>]

\* ---- checkRepetitiveRequestsByUsers / check_repetitive_requests ----
RepetitiveWindow(i) == IF i = "anomalyDetector" THEN timeWindowSeconds ELSE time_window_seconds
RepetitiveThreshold(i) == IF i = "main" THEN request_count_threshold ELSE requestCountThreshold

\* The member added to the sorted set: f"{timestamp}:{requestId}" in
\* anomalyDetector.py and anomaly_detector.py, str(now_timestamp) in main.py.
RepetitiveMember(i, e) ==
    IF i = "main" THEN <<e.timestamp>> ELSE <<e.timestamp, e.requestId>>

checkRepetitiveRequestsByUsers(i, S, e, clock) ==
    LET key == repetitiveKey(e)
        anomalyTimestamp == e.timestamp
        S1 == zadd(S, key, RepetitiveMember(i, e), anomalyTimestamp)
        S2 == zremrangebyscore(S1, key, anomalyTimestamp - RepetitiveWindow(i))
        recentRequestsCount == zcard(S2, key)
        S3 == expire(S2, key, RepetitiveWindow(i) + ExpiryGrace, clock)
    IN [S |-> S3, count |-> recentRequestsCount,
        anomaly |-> IF recentRequestsCount > RepetitiveThreshold(i)
                      THEN <<"REPETITIVE_REQUEST">> ELSE <<>>]

\* ---- checkDelayResponseSpikes ----
RECURSIVE Sum(_)
Sum(q) == IF q = <<>> THEN 0 ELSE Head(q) + Sum(Tail(q))

\* averageLatency > latencyThreshold, with averageLatency = totalLatency / len(latencies).
AverageExceeds(latencies) == Sum(latencies) > latencyThreshold * Len(latencies)

checkDelayResponseSpikes(S, e) ==
    LET key == latencyKey(e)
        S1 == lpush(S, key, e.responseTime)
        S2 == ltrim(S1, key, requestWindowSize - 1)
        latencies == lrange(S2, key)
    IN IF llen(S2, key) < requestWindowSize
         THEN [S |-> S2, evaluated |-> FALSE, latencies |-> <<>>, anomaly |-> <<>>]
         ELSE [S |-> S2, evaluated |-> TRUE, latencies |-> latencies,
               anomaly |-> IF AverageExceeds(latencies)
                             THEN <<"COLLECTIVE_LATENCY_SPIKE">> ELSE <<>>]

\* ---- checkErrorRateSpike ----
checkErrorRateSpike(S, e, clock) ==
    LET cKey == clientRateKey(e)
        sKey == serverRateKey(e)
        isClient == 400 <= e.statusCode /\ e.statusCode < 500
        isServer == 500 <= e.statusCode /\ e.statusCode < 600
        C1S == incr(S, cKey)
        currentClientErrorRate == C1S.counters[cKey]
        C2S == IF currentClientErrorRate = 1
                 THEN expire(C1S, cKey, timeWindowSeconds, clock) ELSE C1S
        afterClient == IF isClient THEN C2S ELSE S
        clientAnomaly == IF isClient /\ currentClientErrorRate > clientErrorThreshold
                           THEN <<"INCREASED_CLIENT_ERROR_RATE">> ELSE <<>>
        S1S == incr(afterClient, sKey)
        currentServerErrorRate == S1S.counters[sKey]
        S2S == IF currentServerErrorRate = 1
                 THEN expire(S1S, sKey, timeWindowSeconds, clock) ELSE S1S
        afterServer == IF isServer THEN S2S ELSE afterClient
        serverAnomaly == IF isServer /\ currentServerErrorRate > serverErrorThreshold
                           THEN <<"INCREASED_SERVER_ERROR_RATE">> ELSE <<>>
    IN IF e.statusCode < 400
         THEN [S |-> S, anomaly |-> <<>>]
         ELSE [S |-> afterServer, anomaly |-> clientAnomaly \o serverAnomaly]

\* The store keys a call of checkErrorRateSpike reads or writes: none before
\* the early return of status < 400, the counter of the status class after.
ErrorKeysTouched(e) ==
    (IF 400 <= e.statusCode /\ e.statusCode < 500 THEN {clientRateKey(e)} ELSE {})
        \cup (IF 500 <= e.statusCode /\ e.statusCode < 600 THEN {serverRateKey(e)} ELSE {})

\* =========================================================================
\* predict_anomaly (app/api/v1/endpoints.py and main.py)
\* =========================================================================

\* The detector calls of predict_anomaly, in the order of the code:
\* 1 reconstruction, 2 rate, 3 repetitive, 4 latency drift, 5 error rate.
\* main.py makes the first three only.
NumStages(i) == IF i = "main" THEN 3 ELSE 5

\* The running state of a predict_anomaly call: the store, anomalyScore,
\* detectedAnomalies and the reconstruction error.
StartAcc(S) == [S |-> S, score |-> 0, det |-> <<>>, recon |-> 0]

\* A variant that adds the severity to the score instead.
BoostSum(score, anomaly, severity) == IF anomaly # <<>> THEN score + severity ELSE score

\* max(anomalyScore, severity) when the detector returned an anomaly.
Boost(score, anomaly, severity) == IF anomaly # <<>> THEN Max(score, severity) ELSE score

ErrorSeverity(type) ==
    IF type = "INCREASED_SERVER_ERROR_RATE" THEN ServerErrorSeverity ELSE ClientErrorSeverity

\* The loop "for errorAnomaly in errorAnomalies".
RECURSIVE BoostErrors(_, _)
BoostErrors(score, anomalies) ==
    IF anomalies = <<>> THEN score
    ELSE BoostErrors(Max(score, ErrorSeverity(Head(anomalies))), Tail(anomalies))

StageRecon(a, e) ==
    LET r == getAutoEncoderReconstructionError(a.S, e)
    IN [S |-> r.S, score |-> r.val, recon |-> r.val,
        det |-> IF r.val > ReconstructionThreshold
                  THEN Append(a.det, "LATENCY_SPIKE_OR_NEW_SCHEMA") ELSE a.det]

StageRate(a, e, clock) ==
    LET r == checkSuddenSpikesInRequests(a.S, e, clock)
    IN [a EXCEPT !.S = r.S, !.det = @ \o r.anomaly,
                 !.score = Boost(@, r.anomaly, RateSeverity)]

StageRepetitive(i, a, e, clock) ==
    LET r == checkRepetitiveRequestsByUsers(i, a.S, e, clock)
    IN [a EXCEPT !.S = r.S, !.det = @ \o r.anomaly,
                 !.score = Boost(@, r.anomaly, RepetitiveSeverity)]

StageLatency(a, e) ==
    LET r == checkDelayResponseSpikes(a.S, e)
    IN [a EXCEPT !.S = r.S, !.det = @ \o r.anomaly,
                 !.score = Boost(@, r.anomaly, LatencySeverity)]

StageError(a, e, clock) ==
    LET r == checkErrorRateSpike(a.S, e, clock)
    IN [a EXCEPT !.S = r.S, !.det = @ \o r.anomaly,
                 !.score = BoostErrors(@, r.anomaly)]

RunStage(j, i, a, e, clock) ==
    CASE j = 1 -> StageRecon(a, e)
      [] j = 2 -> StageRate(a, e, clock)
      [] j = 3 -> StageRepetitive(i, a, e, clock)
      [] j = 4 -> StageLatency(a, e)
      [] j = 5 -> StageError(a, e, clock)

\* The calls j..n made one after the other.
RECURSIVE RunStages(_, _, _, _, _, _)
RunStages(j, n, i, a, e, clock) ==
    IF j > n THEN a ELSE RunStages(j + 1, n, i, RunStage(j, i, a, e, clock), e, clock)

\* Whether detector call j makes a store round trip for this event.
UsesStore(j, e) ==
    CASE j = 1 -> e.responseTime <= ResponseTimeCeiling
      [] j = 5 -> e.statusCode >= 400
      [] OTHER -> TRUE

\* A variant of the report that flags only two or more anomalies.
FinalReportSeveral(e, a) ==
    [requestId |-> e.requestId,
     isAnomaly |-> Len(a.det) > 1,
     anomalyScore |-> Min(ScoreCap, a.score),
     detectedAnomalies |-> a.det]

\* Lines 59-66: the report.
FinalReport(e, a) ==
    [requestId |-> e.requestId,
     isAnomaly |-> Len(a.det) > 0,
     anomalyScore |-> Min(ScoreCap, a.score),
     detectedAnomalies |-> a.det]

\* =========================================================================
\* Calls of the detectors and of predict_anomaly
\* =========================================================================

\* Bounds on the number of calls in a run.
MaxRateCalls == 4
MaxRepCalls == 3
MaxLatCalls == 5
MaxPredictCalls == 3
MaxErrCalls == 4
MaxReconCalls == 3

Endpoints == {"/a", "/b"}
RequestIds == 1..MaxRepCalls
LatencyValues == {100, 150, 200}
StatusCodes == {200, 404, 500}
ResponseTimes == {20, 300}
\* Response times below, at and above the ceiling of 50 ms.
ReconResponseTimes == {20, 50, 51, 300}
SchemaHashes == {"h1", "h2"}
\* Statuses at both ends of the 4xx class, below it and above it.
ErrStatusCodes == {399, 400, 499, 500}

\* The events of the calls: the fields a detector does not read are fixed.
\* An event that lags the clock was stamped "lag" seconds before it arrives.
RateEvent(lag, ep) == Event(1, now - lag, ep, 200, 20, "c1", "h1")
RepEvent(rid, lag) == Event(rid, now - lag, "/a", 200, 20, "c1", "h1")
ErrEvent(st) == Event(1, now, "/a", st, 20, "c1", "h1")
ReconEvent(ep, rt, hash) == Event(Len(hist) + 1, now, ep, 200, rt, "c1", hash)
LatEvent(rt) == Event(1, now, "/a", 200, rt, "c1", "h1")
\* Every call of predict_anomaly carries its own request id and arrives
\* at its timestamp.
PredictEvent(st, rt) == Event(Len(hist) + 1, now, "/a", st, rt, "c1", "h1")

\* The manager is not used by the detectors.
MgrIdle == MgrInit /\ ae = "loaded"

\* A fresh store, with one of the copies of the detectors deployed.
StoreInit(impls) ==
    /\ impl \in impls
    /\ now = 0
    /\ store = EmptyStore
    /\ last = [op |-> "none"]
    /\ hist = <<>>
    /\ wk = [w \in Workers |-> IdleWork]

\* The record of a call: the event, when it arrived, the detector calls made.
Entry(e, ran) == [e |-> e, at |-> now, ran |-> ran]

RateCall(e) ==
    /\ Len(hist) < MaxRateCalls
    /\ e.timestamp >= 0
    /\ LET r == checkSuddenSpikesInRequests(store, e, now)
       IN /\ store' = r.S
          /\ last' = [op |-> "rate", e |-> e, count |-> r.count, anomaly |-> r.anomaly]
    /\ hist' = Append(hist, Entry(e, {2}))
    /\ UNCHANGED <<impl, now, wk, mgrVars>>

RepCall(e) ==
    /\ Len(hist) < MaxRepCalls
    /\ e.timestamp >= 0
    /\ LET r == checkRepetitiveRequestsByUsers(impl, store, e, now)
       IN /\ store' = r.S
          /\ last' = [op |-> "repetitive", e |-> e, count |-> r.count,
                      anomaly |-> r.anomaly,
                      before |-> Get(store.zsets, repetitiveKey(e), {}),
                      after |-> Get(r.S.zsets, repetitiveKey(e), {})]
    /\ hist' = Append(hist, Entry(e, {3}))
    /\ UNCHANGED <<impl, now, wk, mgrVars>>

LatCall(e) ==
    /\ Len(hist) < MaxLatCalls
    /\ e.timestamp >= 0
    /\ LET r == checkDelayResponseSpikes(store, e)
       IN /\ store' = r.S
          /\ last' = [op |-> "latency", e |-> e, evaluated |-> r.evaluated,
                      latencies |-> r.latencies, anomaly |-> r.anomaly]
    /\ hist' = Append(hist, Entry(e, {4}))
    /\ UNCHANGED <<impl, now, wk, mgrVars>>

\* predict_anomaly with the store available throughout.
Predict(e) ==
    /\ Len(hist) < MaxPredictCalls
    /\ e.timestamp >= 0
    /\ LET a == RunStages(1, NumStages(impl), impl, StartAcc(store), e, now)
       IN /\ store' = a.S
          /\ last' = [op |-> "predict", e |-> e, raised |-> FALSE, recon |-> a.recon,
                      ran |-> 1..NumStages(impl), report |-> FinalReport(e, a)]
    /\ hist' = Append(hist, Entry(e, 1..NumStages(impl)))
    /\ UNCHANGED <<impl, now, wk, mgrVars>>

\* predict_anomaly when the store is unavailable at detector call j: the
\* redis exception is not caught, the request ends without a report.
PredictFail(e, j) ==
    /\ Len(hist) < MaxPredictCalls
    /\ e.timestamp >= 0
    /\ j \in 1..NumStages(impl)
    /\ UsesStore(j, e)
    /\ LET a == RunStages(1, j - 1, impl, StartAcc(store), e, now)
       IN /\ store' = a.S
          /\ last' = [op |-> "predict", e |-> e, raised |-> TRUE, failed |-> j,
                      ran |-> 1..(j - 1), report |-> "none"]
    /\ hist' = Append(hist, Entry(e, 1..(j - 1)))
    /\ UNCHANGED <<impl, now, wk, mgrVars>>

\* A call of getAutoEncoderReconstructionError alone.
ReconCall(e) ==
    /\ Len(hist) < MaxReconCalls
    /\ LET r == getAutoEncoderReconstructionError(store, e)
       IN /\ store' = r.S
          /\ last' = [op |-> "recon", e |-> e, val |-> r.val,
                      before |-> store, after |-> r.S]
    /\ hist' = Append(hist, Entry(e, {1}))
    /\ UNCHANGED <<impl, now, wk, mgrVars>>

\* A call of checkErrorRateSpike alone.
ErrCall(e) ==
    /\ Len(hist) < MaxErrCalls
    /\ e.timestamp >= 0
    /\ LET r == checkErrorRateSpike(store, e, now)
       IN /\ store' = r.S
          /\ last' = [op |-> "error", e |-> e, anomaly |-> r.anomaly,
                      touched |-> ErrorKeysTouched(e), before |-> store, after |-> r.S]
    /\ hist' = Append(hist, Entry(e, {5}))
    /\ UNCHANGED <<impl, now, wk, mgrVars>>

RateNext ==
    \/ \E t \in ClockPoints : Tick(t)
    \/ \E lag \in EventLags, ep \in Endpoints : RateCall(RateEvent(lag, ep))

RepNext ==
    \/ \E t \in ClockPoints : Tick(t)
    \/ \E rid \in RequestIds, lag \in EventLags : RepCall(RepEvent(rid, lag))

ErrNext ==
    \/ \E t \in ClockPoints : Tick(t)
    \/ \E st \in ErrStatusCodes : ErrCall(ErrEvent(st))

ReconNext ==
    \/ \E ep \in Endpoints, rt \in ReconResponseTimes, hash \in SchemaHashes :
          ReconCall(ReconEvent(ep, rt, hash))
    \/ \E ep \in Endpoints, rt \in ReconResponseTimes, hash \in SchemaHashes :
          Predict(ReconEvent(ep, rt, hash))

LatNext == \E rt \in LatencyValues : LatCall(LatEvent(rt))

PredictNext ==
    \/ \E t \in ClockPoints : Tick(t)
    \/ \E st \in StatusCodes, rt \in ResponseTimes : Predict(PredictEvent(st, rt))

PredictFailNext ==
    \/ \E st \in StatusCodes, rt \in ResponseTimes : Predict(PredictEvent(st, rt))
    \/ \E st \in StatusCodes, rt \in ResponseTimes, j \in 1..5 :
          PredictFail(PredictEvent(st, rt), j)

InitRate == MgrIdle /\ StoreInit({"anomalyDetector"})
InitRep == MgrIdle /\ StoreInit(Impls)
InitErr == MgrIdle /\ StoreInit({"anomalyDetector"})
InitRecon == MgrIdle /\ StoreInit({"anomalyDetector"})
InitLat == MgrIdle /\ StoreInit({"anomalyDetector"})
InitPredict == MgrIdle /\ StoreInit({"anomalyDetector", "main"})

\* Sequential calls of one detector, and of predict_anomaly, as time passes;
\* SpecPredictFail: calls of predict_anomaly during which the store may
\* become unavailable.
SpecRate == InitRate /\ [][RateNext]_vars
SpecRep == InitRep /\ [][RepNext]_vars
SpecErr == InitErr /\ [][ErrNext]_vars
\* Calls of the simulated autoencoder, alone and from predict_anomaly.
SpecRecon == InitRecon /\ [][ReconNext]_vars
SpecLat == InitLat /\ [][LatNext]_vars
SpecPredict == InitPredict /\ [][PredictNext]_vars
SpecPredictFail == InitPredict /\ [][PredictFailNext]_vars

InitMgr == MgrInit /\ StoreIdle

\* Calls of handle_incoming_log by concurrent threads.
SpecMgr == InitMgr /\ [][MgrNext]_vars
\* The same, in the runs where no retraining raises.
SpecMgrOk == InitMgr /\ [][MgrNextOk]_vars

\* The steps of a started call of thread t that do not wait: everything but
\* the start of a call and the entry of the "with self.lock" block.
Run(t) ==
    \/ CheckKnown(t)
    \/ BufferAppend(t)
    \/ Promote(t)
    \/ Cat(t)
    \/ TrainStep(t)
    \/ TrainRaise(t)
    \/ \E v \in ThresholdVals : Recompute(t, v)
    \/ RecomputeRaise(t)
    \/ Clear(t)

\* Fair scheduling: a thread that can take a step eventually takes one (each
\* optimizer step and each percentile computation finishes or raises), and a
\* thread that finds the lock free again and again eventually gets it.
MgrFairness == \A t \in Threads : WF_vars(Run(t)) /\ SF_vars(Acquire(t))

\* The calls of concurrent threads for a known and an unknown endpoint, the
\* values of the reconstruction error and of the recomputed threshold (which
\* no step of the locking depends on) held at one value each.
FairEndpoints == {"k", "v"}
FairErrVal == 1
FairThresholdVal == 2
MgrFairNext ==
    \E t \in Threads :
        \/ \E e \in FairEndpoints, s \in MgrStatuses : Call(t, e, s, FairErrVal)
        \/ CheckKnown(t)
        \/ Acquire(t)
        \/ BufferAppend(t)
        \/ Promote(t)
        \/ Cat(t)
        \/ TrainStep(t)
        \/ TrainRaise(t)
        \/ Recompute(t, FairThresholdVal)
        \/ RecomputeRaise(t)
        \/ Clear(t)

SpecMgrFair == InitMgr /\ [][MgrFairNext]_vars /\ MgrFairness

\* Calls of handle_incoming_log made one after the other by one thread.
MgrSeqNext == MgrStep(1)
SpecMgrSeq == InitMgr /\ [][MgrSeqNext]_vars

\* The process from its start: the manager is constructed, then called.
InitStart == Unconstructed /\ StoreIdle
ConstructNext == \E a \in Artifacts : Construct(a)
StartNext == ConstructNext \/ MgrSeqNext
SpecMgrStart == InitStart /\ [][StartNext]_vars

\* =========================================================================
\* The detector calls one store round trip at a time: request workers that
\* run at the same time, and a worker process that dies inside a call
\* =========================================================================

\* Bound on the number of calls started in a run.
MaxWorkCalls == 4

\* The calls started so far: returned or died (hist), or in progress.
Started == Len(hist) + Cardinality({w \in Workers : wk[w].pc # "idle"})

\* The frame of a call after its first store round trip on key k.
Work(pc, e, n, k) ==
    [pc |-> pc, e |-> e, at |-> now, n |-> n, did |-> {k}, ttl |-> k \in DOMAIN store.expiry]

\* The record of a call that returned: its event, when it started, the
\* detector, the count it read, its result and whether it set the expiry.
Returned(w, e, at, j, n, anomaly, expired) ==
    [e |-> e, at |-> at, ran |-> {j}, w |-> w, n |-> n, anomaly |-> anomaly,
     expired |-> expired, crashed |-> FALSE]

\* ---- checkSuddenSpikesInRequests ----
\* Line 30: INCR and the count it returns.
RateIncr(w, e) ==
    /\ wk[w].pc = "idle"
    /\ Started < MaxWorkCalls
    /\ e.timestamp >= 0
    /\ store' = incr(store, rateKey(e))
    /\ wk' = [wk EXCEPT ![w] = Work("rate_incr", e, store'.counters[rateKey(e)], rateKey(e))]
    /\ UNCHANGED <<impl, now, last, hist, mgrVars>>

\* Lines 32-44: EXPIRE by the call that read 1, the comparison and the return.
RateFinish(w) ==
    /\ wk[w].pc = "rate_incr"
    /\ LET f == wk[w]
           anomaly == IF RateExceeded(f.n) THEN <<"INCREASED_REQUEST_RATE">> ELSE <<>>
       IN /\ store' = IF f.n = 1 THEN expire(store, rateKey(f.e), timeWindowSeconds, now)
                                 ELSE store
          /\ hist' = Append(hist, Returned(w, f.e, f.at, 2, f.n, anomaly, f.n = 1))
          /\ last' = [op |-> "rate_step", e |-> f.e, count |-> f.n, anomaly |-> anomaly]
    /\ wk' = [wk EXCEPT ![w] = IdleWork]
    /\ UNCHANGED <<impl, now, mgrVars>>

\* ---- checkErrorRateSpike ----
\* The counter of the status class of the event, and its threshold.
ErrKey(e) == IF e.statusCode < 500 THEN clientRateKey(e) ELSE serverRateKey(e)
ErrThreshold(e) == IF e.statusCode < 500 THEN clientErrorThreshold ELSE serverErrorThreshold
ErrType(e) ==
    IF e.statusCode < 500 THEN "INCREASED_CLIENT_ERROR_RATE" ELSE "INCREASED_SERVER_ERROR_RATE"

\* Lines 104-113 (4xx) or 104-130 (5xx): INCR and the count it returns; a
\* status below 400 returns before any store round trip.
ErrIncr(w, e) ==
    /\ wk[w].pc = "idle"
    /\ Started < MaxWorkCalls
    /\ e.statusCode >= 400 /\ e.statusCode < 600
    /\ store' = incr(store, ErrKey(e))
    /\ wk' = [wk EXCEPT ![w] = Work("err_incr", e, store'.counters[ErrKey(e)], ErrKey(e))]
    /\ UNCHANGED <<impl, now, last, hist, mgrVars>>

\* Lines 115-125 (4xx) or 132-144 (5xx): EXPIRE by the call that read 1, the
\* comparison and the return.
ErrFinish(w) ==
    /\ wk[w].pc = "err_incr"
    /\ LET f == wk[w]
           anomaly == IF f.n > ErrThreshold(f.e) THEN <<ErrType(f.e)>> ELSE <<>>
       IN /\ store' = IF f.n = 1 THEN expire(store, ErrKey(f.e), timeWindowSeconds, now)
                                 ELSE store
          /\ hist' = Append(hist, Returned(w, f.e, f.at, 5, f.n, anomaly, f.n = 1))
          /\ last' = [op |-> "error_step", e |-> f.e, count |-> f.n, anomaly |-> anomaly]
    /\ wk' = [wk EXCEPT ![w] = IdleWork]
    /\ UNCHANGED <<impl, now, mgrVars>>

\* ---- checkRepetitiveRequestsByUsers ----
\* Line 55: ZADD.
RepAdd(w, e) ==
    /\ wk[w].pc = "idle"
    /\ Started < MaxWorkCalls
    /\ e.timestamp >= 0
    /\ store' = zadd(store, repetitiveKey(e), RepetitiveMember(impl, e), e.timestamp)
    /\ wk' = [wk EXCEPT ![w] = Work("rep_zadd", e, 0, repetitiveKey(e))]
    /\ UNCHANGED <<impl, now, last, hist, mgrVars>>

\* Line 56: ZREMRANGEBYSCORE.
RepPrune(w) ==
    /\ wk[w].pc = "rep_zadd"
    /\ store' = zremrangebyscore(store, repetitiveKey(wk[w].e),
                                 wk[w].e.timestamp - RepetitiveWindow(impl))
    /\ wk' = [wk EXCEPT ![w].pc = "rep_prune"]
    /\ UNCHANGED <<impl, now, last, hist, mgrVars>>

\* Line 57: ZCARD.
RepCount(w) ==
    /\ wk[w].pc = "rep_prune"
    /\ wk' = [wk EXCEPT ![w].pc = "rep_zcard", ![w].n = zcard(store, repetitiveKey(wk[w].e))]
    /\ UNCHANGED <<impl, now, store, last, hist, mgrVars>>

\* Lines 58-69: EXPIRE, the comparison and the return.
RepFinish(w) ==
    /\ wk[w].pc = "rep_zcard"
    /\ LET f == wk[w]
           anomaly == IF f.n > RepetitiveThreshold(impl) THEN <<"REPETITIVE_REQUEST">> ELSE <<>>
       IN /\ store' = expire(store, repetitiveKey(f.e), RepetitiveWindow(impl) + ExpiryGrace, now)
          /\ hist' = Append(hist, Returned(w, f.e, f.at, 3, f.n, anomaly, TRUE))
          /\ last' = [op |-> "repetitive_step", e |-> f.e, count |-> f.n, anomaly |-> anomaly]
    /\ wk' = [wk EXCEPT ![w] = IdleWork]
    /\ UNCHANGED <<impl, now, mgrVars>>

\* ---- checkDelayResponseSpikes ----
\* Line 79: LPUSH.
LatPush(w, e) ==
    /\ wk[w].pc = "idle"
    /\ Started < MaxWorkCalls
    /\ store' = lpush(store, latencyKey(e), e.responseTime)
    /\ wk' = [wk EXCEPT ![w] = Work("lat_push", e, 0, latencyKey(e))]
    /\ UNCHANGED <<impl, now, last, hist, mgrVars>>

\* Line 80: LTRIM.
LatTrim(w) ==
    /\ wk[w].pc = "lat_push"
    /\ store' = ltrim(store, latencyKey(wk[w].e), requestWindowSize - 1)
    /\ wk' = [wk EXCEPT ![w].pc = "lat_trim"]
    /\ UNCHANGED <<impl, now, last, hist, mgrVars>>

\* Lines 82-83: LLEN and the early return.
LatLen(w) ==
    /\ wk[w].pc = "lat_trim"
    /\ LET f == wk[w]
           n == llen(store, latencyKey(f.e))
       IN IF n < requestWindowSize
            THEN /\ wk' = [wk EXCEPT ![w] = IdleWork]
                 /\ hist' = Append(hist, Returned(w, f.e, f.at, 4, n, <<>>, FALSE))
                 /\ last' = [op |-> "latency_step", e |-> f.e, evaluated |-> FALSE,
                             latencies |-> <<>>, anomaly |-> <<>>]
            ELSE /\ wk' = [wk EXCEPT ![w].pc = "lat_len", ![w].n = n]
                 /\ UNCHANGED <<last, hist>>
    /\ UNCHANGED <<impl, now, store, mgrVars>>

\* Lines 85-98: LRANGE, the mean, the comparison and the return.
LatRange(w) ==
    /\ wk[w].pc = "lat_len"
    /\ LET f == wk[w]
           latencies == lrange(store, latencyKey(f.e))
           anomaly == IF AverageExceeds(latencies)
                        THEN <<"COLLECTIVE_LATENCY_SPIKE">> ELSE <<>>
       IN /\ hist' = Append(hist, Returned(w, f.e, f.at, 4, f.n, anomaly, FALSE))
          /\ last' = [op |-> "latency_step", e |-> f.e, evaluated |-> TRUE,
                      latencies |-> latencies, anomaly |-> anomaly]
    /\ wk' = [wk EXCEPT ![w] = IdleWork]
    /\ UNCHANGED <<impl, now, store, mgrVars>>

\* The worker process dies between two store round trips of its call: the
\* store keeps what the call wrote so far, nothing more of the call runs.
Crash(w) ==
    /\ wk[w].pc # "idle"
    /\ LET f == wk[w]
       IN /\ hist' = Append(hist, [e |-> f.e, at |-> f.at, ran |-> {}, w |-> w, n |-> f.n,
                                   anomaly |-> <<>>, expired |-> FALSE, crashed |-> TRUE])
          /\ last' = [op |-> "crash", e |-> f.e, pc |-> f.pc, did |-> f.did,
                      ttl |-> f.ttl, after |-> store]
    /\ wk' = [wk EXCEPT ![w] = IdleWork]
    /\ UNCHANGED <<impl, now, store, mgrVars>>

\* The worker whose calls are followed to a crash, the statuses of its
\* error-rate calls and the times the clock is read at.
Solo == 1
CrashStatusCodes == {400, 500}
CrashClock == {60, 125}
\* Every call carries its own request id and arrives at its timestamp.
CrashEvent(st) == Event(Len(hist) + 1, now, "/a", st, 20, "c1", "h1")

\* Calls of the rate, error-rate and repetitive detectors by one worker, one
\* after the other, as time passes; the worker may die inside a call and is
\* restarted.
CrashNext ==
    \/ \E t \in CrashClock : Tick(t)
    \/ RateIncr(Solo, CrashEvent(200))
    \/ RateFinish(Solo)
    \/ \E st \in CrashStatusCodes : ErrIncr(Solo, CrashEvent(st))
    \/ ErrFinish(Solo)
    \/ RepAdd(Solo, CrashEvent(200))
    \/ RepPrune(Solo)
    \/ RepCount(Solo)
    \/ RepFinish(Solo)
    \/ Crash(Solo)

InitCrash == MgrIdle /\ StoreInit({"anomalyDetector"})
SpecCrash == InitCrash /\ [][CrashNext]_vars

\* Calls of checkSuddenSpikesInRequests by workers that run at the same
\* time, all within one clock minute and before any key expires.
RateConcNext ==
    \/ \E w \in Workers, ep \in Endpoints : RateIncr(w, RateEvent(0, ep))
    \/ \E w \in Workers : RateFinish(w)

InitRateConc == MgrIdle /\ StoreInit({"anomalyDetector"})
SpecRateConc == InitRateConc /\ [][RateConcNext]_vars

\* Calls of checkDelayResponseSpikes for one endpoint by workers that run at
\* the same time.
LatConcNext ==
    \/ \E w \in Workers, rt \in LatencyValues : LatPush(w, LatEvent(rt))
    \/ \E w \in Workers : LatTrim(w)
    \/ \E w \in Workers : LatLen(w)
    \/ \E w \in Workers : LatRange(w)

InitLatConc == MgrIdle /\ StoreInit({"anomalyDetector"})
SpecLatConc == InitLatConc /\ [][LatConcNext]_vars

\* ------------------------------------------------------------------------
\* C1: promotion is monotonic and idempotent-safe: whenever the lock is
\* free every known endpoint has an empty buffer; no successful call is
\* about to append to the buffer of a known endpoint (and so be answered
\* "endpoint_buffered"); and no call promotes an endpoint that was already
\* known when the call took the lock.
C1_PromotionMonotonic ==
    /\ lock = NoThread =>
          \A e \in dynamic_known_endpoints : new_endpoint_buffer[e] = <<>>
    /\ \A t \in Threads :
          (th[t].pc = "append" /\ th[t].status = 200) =>
              th[t].endpoint \notin dynamic_known_endpoints
    /\ \A t \in Threads :
          th[t].pc \in {"promote", "cat", "train", "clear"} =>
              th[t].endpoint \notin pre.known

\* ------------------------------------------------------------------------
\* C2: a retraining failure leaves the prior state unchanged: the step in
\* which a call raises ends with the known set, the reference set, the
\* weights and the threshold as they were when the call took the lock, and
\* with the lock free.
C2_RetrainFailureLeavesState ==
    [][(out' # out /\ out'.kind = "raised") =>
          (AdaptationState' = pre /\ lock' = NoThread)]_vars

\* =========================================================================
\* Properties of predict_anomaly and of the detectors
\* =========================================================================

Range(q) == {q[i] : i \in DOMAIN q}
SetMax(A) == CHOOSE x \in A : \A y \in A : y <= x

\* The report of the latest predict_anomaly call, when it returned one.
Reported == last.op = "predict" /\ ~last.raised

\* ------------------------------------------------------------------------
\* C3: no detector failure aborts the others: when the store is unavailable
\* at one detector call of predict_anomaly, every other detector call is
\* still made for the event and a report (marked partial) is returned.
C3_DetectorFailureIsolated ==
    (last.op = "predict" /\ last.raised) =>
        /\ last.ran = (1..NumStages(impl)) \ {last.failed}
        /\ last.report # "none"

\* ------------------------------------------------------------------------
\* C4: the report's anomalyScore is min(1.0, max(r, s_1, ..., s_k)), r the
\* reconstruction error and s_i the fixed severities of the detectors that
\* fired (rate 0.9, repetitive 0.95, collective latency 0.85, client error
\* 0.9, server error 0.98); it lies in [0, 1].
SeverityOf(type) ==
    CASE type = "INCREASED_REQUEST_RATE" -> 90
      [] type = "REPETITIVE_REQUEST" -> 95
      [] type = "COLLECTIVE_LATENCY_SPIKE" -> 85
      [] type = "INCREASED_CLIENT_ERROR_RATE" -> 90
      [] type = "INCREASED_SERVER_ERROR_RATE" -> 98
      [] OTHER -> 0

C4_ScoreIsCappedMax ==
    Reported =>
        LET fired == Range(last.report.detectedAnomalies)
            best == SetMax({last.recon} \cup {SeverityOf(type) : type \in fired})
        IN /\ last.report.anomalyScore = (IF best > 100 THEN 100 ELSE best)
           /\ last.report.anomalyScore \in 0..100

\* Two detectors of different severity fire on a call whose reconstruction
\* error is low: the score is the larger severity, not their sum.
C4_Witness ==
    /\ Reported
    /\ last.recon = 10
    /\ {"INCREASED_REQUEST_RATE", "REPETITIVE_REQUEST"}
          \subseteq Range(last.report.detectedAnomalies)
    /\ last.report.anomalyScore = 95

\* ------------------------------------------------------------------------
\* C5: isAnomaly is true if and only if detectedAnomalies is non-empty.
C5_IsAnomalyIffDetected ==
    Reported => (last.report.isAnomaly <=> last.report.detectedAnomalies # <<>>)

\* A report of exactly one anomaly.
C5_Witness ==
    /\ Reported
    /\ last.report.isAnomaly
    /\ Len(last.report.detectedAnomalies) = 1

\* ------------------------------------------------------------------------
\* C6: the rate detector's boundary is exclusive: a call returns
\* INCREASED_REQUEST_RATE if and only if the number of calls counted in the
\* live bucket of its endpoint and clock minute, itself included, is
\* strictly greater than the threshold.

\* The calls for endpoint ep and clock minute m counted by the bucket that
\* is live after the calls of h: a call arriving 60 seconds or more after
\* the call that opened the bucket opens a new one.
RECURSIVE LiveCount(_, _, _, _, _)
LiveCount(h, ep, m, opened, n) ==
    IF h = <<>> THEN n
    ELSE LET x == Head(h)
         IN IF ~(x.e.endpoint = ep /\ x.e.timestamp \div 60 = m /\ 2 \in x.ran)
              THEN LiveCount(Tail(h), ep, m, opened, n)
            ELSE IF n = 0 \/ x.at >= opened + 60
              THEN LiveCount(Tail(h), ep, m, x.at, 1)
            ELSE LiveCount(Tail(h), ep, m, opened, n + 1)

CountedWithLast == LiveCount(hist, last.e.endpoint, last.e.timestamp \div 60, 0, 0)

C6_RateBoundaryExclusive ==
    last.op = "rate" =>
        /\ last.anomaly = (IF CountedWithLast > requestRateThreshold
                             THEN <<"INCREASED_REQUEST_RATE">> ELSE <<>>)
        /\ last.count = CountedWithLast

\* The call after the one that brought the count to the threshold fires.
C6_Witness ==
    /\ last.op = "rate"
    /\ CountedWithLast = requestRateThreshold + 1
    /\ last.anomaly = <<"INCREASED_REQUEST_RATE">>

\* ------------------------------------------------------------------------
\* C7: scenario 2. The calls of hist, the latest included, to the endpoint
\* of the latest call ...
\* ... whose timestamps lie in the 60 seconds that end with its timestamp:
InSpanOfLast ==
    {i \in DOMAIN hist : /\ hist[i].e.endpoint = last.e.endpoint
                         /\ hist[i].e.timestamp <= last.e.timestamp
                         /\ last.e.timestamp - hist[i].e.timestamp < 60}
\* ... whose timestamps lie in the clock minute of its timestamp:
InMinuteOfLast ==
    {i \in DOMAIN hist : /\ hist[i].e.endpoint = last.e.endpoint
                         /\ hist[i].e.timestamp \div 60 = last.e.timestamp \div 60}

RateReported ==
    /\ "INCREASED_REQUEST_RATE" \in Range(last.report.detectedAnomalies)
    /\ last.report.anomalyScore >= 90

\* C7 as claimed: when T+1 calls to one endpoint have timestamps within one
\* 60-second span, wherever the span lies, the last call's report includes
\* INCREASED_REQUEST_RATE and has anomalyScore >= 0.9.
C7_AnySpanFires ==
    (Reported /\ Cardinality(InSpanOfLast) >= requestRateThreshold + 1) => RateReported

\* C7 as amended: when T+1 calls to one endpoint, each arriving at its
\* timestamp, have timestamps within one clock minute, the last call's
\* report includes INCREASED_REQUEST_RATE and has anomalyScore >= 0.9.
C7_SameMinuteFires ==
    (Reported /\ Cardinality(InMinuteOfLast) >= requestRateThreshold + 1) => RateReported

\* The (T+1)th call of a clock minute is reported.
C7_Witness ==
    /\ Reported
    /\ Cardinality(InMinuteOfLast) = requestRateThreshold + 1
    /\ RateReported

\* ------------------------------------------------------------------------
\* C8: the repetitive detector counts every distinct call: after K calls
\* for one (client, endpoint) with pairwise different request ids, whose
\* timestamps are pairwise less than the window apart (they may be equal)
\* and which arrive less than the window apart, the cardinality the Kth
\* call reads is K, in every copy of the detector.
PairwiseDistinctIds ==
    \A i, j \in DOMAIN hist : i # j => hist[i].e.requestId # hist[j].e.requestId

AllInsideWindow ==
    \A i, j \in DOMAIN hist :
        /\ hist[i].e.timestamp - hist[j].e.timestamp < RepetitiveWindow(impl)
        /\ hist[i].at - hist[j].at < RepetitiveWindow(impl)

C8_DistinctCallsAllCount ==
    (last.op = "repetitive" /\ PairwiseDistinctIds /\ AllInsideWindow) =>
        last.count = Len(hist)

\* ------------------------------------------------------------------------
\* C9: the prune is exact: the call with timestamp now removes the members
\* scored below now - window and no others, so a member scored exactly
\* now - window is still in the set the call counts.
C9_PruneIsExact ==
    last.op = "repetitive" =>
        LET member == RepetitiveMember(impl, last.e)
            added == {p \in last.before : p[1] # member}
                        \cup {<<member, last.e.timestamp>>}
            floor == last.e.timestamp - RepetitiveWindow(impl)
        IN /\ last.after = {p \in added : p[2] >= floor}
           /\ last.count = Cardinality({p \in added : p[2] >= floor})

\* ------------------------------------------------------------------------
\* C10: latency drift, sequential calls to one endpoint with window size N:
\* the first N-1 calls return no anomaly whatever their response times; the
\* Nth and every later call returns COLLECTIVE_LATENCY_SPIKE if and only if
\* the mean of the N most recent response times is strictly greater than
\* the latency threshold.
RECURSIVE TotalOfCalls(_, _)
TotalOfCalls(from, to) ==
    IF from > to THEN 0 ELSE hist[from].e.responseTime + TotalOfCalls(from + 1, to)

C10_LatencySlidingWindow ==
    last.op = "latency" =>
        LET n == Len(hist)
            recent == TotalOfCalls(n - requestWindowSize + 1, n)
        IN IF n < requestWindowSize
             THEN last.anomaly = <<>>
             ELSE last.anomaly = (IF recent > 150 * requestWindowSize
                                    THEN <<"COLLECTIVE_LATENCY_SPIKE">> ELSE <<>>)

\* A call after the Nth fires although the mean of all calls so far is not
\* above the threshold: the oldest value no longer counts.
C10_Witness ==
    /\ last.op = "latency"
    /\ Len(hist) > requestWindowSize
    /\ last.anomaly = <<"COLLECTIVE_LATENCY_SPIKE">>
    /\ TotalOfCalls(1, Len(hist)) <= 150 * Len(hist)

\* ------------------------------------------------------------------------
\* C13: the error-rate detector. A call with status < 400 touches no store
\* key and returns the empty list; a 4xx call increments only the
\* client-error counter of its endpoint and minute, a 5xx call only the
\* server-error counter; the call returns at most one anomaly,
\* INCREASED_CLIENT_ERROR_RATE iff the client count exceeds its threshold,
\* INCREASED_SERVER_ERROR_RATE iff the server count exceeds its threshold,
\* each count being that of the calls of its own class alone.
IsClientError(st) == 400 <= st /\ st < 500
IsServerError(st) == 500 <= st /\ st < 600

\* The calls of hist of the class of the latest call, for its endpoint and
\* minute, counted by the bucket live at the latest call: a call arriving
\* 60 seconds or more after the one that opened the bucket opens a new one.
RECURSIVE ErrLiveCount(_, _, _)
ErrLiveCount(h, opened, n) ==
    IF h = <<>> THEN n
    ELSE LET x == Head(h)
             same == /\ x.e.endpoint = last.e.endpoint
                     /\ x.e.timestamp \div 60 = last.e.timestamp \div 60
                     /\ IsClientError(x.e.statusCode) = IsClientError(last.e.statusCode)
                     /\ IsServerError(x.e.statusCode) = IsServerError(last.e.statusCode)
         IN IF ~same THEN ErrLiveCount(Tail(h), opened, n)
            ELSE IF n = 0 \/ x.at >= opened + 60 THEN ErrLiveCount(Tail(h), x.at, 1)
            ELSE ErrLiveCount(Tail(h), opened, n + 1)

\* The parts of the store outside the keys of K are the same in S and T.
SameOutside(S, T, K) ==
    \A f \in {"counters", "zsets", "lists", "sets", "expiry"} :
        /\ DOMAIN S[f] \ K = DOMAIN T[f] \ K
        /\ \A k \in DOMAIN S[f] \ K : S[f][k] = T[f][k]

C13_ErrorRateFrame ==
    last.op = "error" =>
        LET st == last.e.statusCode
            cKey == <<"client_error_rate", last.e.endpoint, last.e.timestamp \div 60>>
            sKey == <<"server_error_rate", last.e.endpoint, last.e.timestamp \div 60>>
            own == IF IsClientError(st) THEN cKey ELSE sKey
            count == ErrLiveCount(hist, 0, 0)
        IN /\ Len(last.anomaly) <= 1
           /\ st < 400 => /\ last.touched = {}
                          /\ last.after = last.before
                          /\ last.anomaly = <<>>
           /\ st >= 400 =>
                 /\ last.touched = {own}
                 /\ SameOutside(last.before, last.after, {own})
                 /\ last.after.counters[own] = Get(last.before.counters, own, 0) + 1
                 /\ last.after.counters[own] = count
           /\ IsClientError(st) =>
                 last.anomaly = (IF count > clientErrorThreshold
                                   THEN <<"INCREASED_CLIENT_ERROR_RATE">> ELSE <<>>)
           /\ IsServerError(st) =>
                 last.anomaly = (IF count > serverErrorThreshold
                                   THEN <<"INCREASED_SERVER_ERROR_RATE">> ELSE <<>>)

\* A server error fires while the client counter of the same endpoint and
\* minute, at its threshold, stays as it was.
C13_Witness ==
    /\ last.op = "error"
    /\ last.anomaly = <<"INCREASED_SERVER_ERROR_RATE">>
    /\ \E k \in DOMAIN last.after.counters :
          /\ k = <<"client_error_rate", last.e.endpoint, last.e.timestamp \div 60>>
          /\ last.after.counters[k] = clientErrorThreshold

\* ------------------------------------------------------------------------
\* C14: the reconstruction score. When the response time is above 50 the
\* score is 0.9 + (response time - 50)/100 and the store is as before;
\* otherwise, when the schema hash is not in the endpoint's schema set, the
\* score is 0.85 and the hash is added to that set and nothing else changes;
\* otherwise the score is 0.1 and the store is as before. A 20 ms call with
\* a never-seen hash on a fresh store is reported with exactly one anomaly,
\* LATENCY_SPIKE_OR_NEW_SCHEMA, and anomalyScore >= 0.85.
C14_ReconstructionReference ==
    /\ last.op = "recon" =>
          LET key == <<"schema_hashes", last.e.endpoint>>
              seen == Get(last.before.sets, key, {})
          IN IF last.e.responseTime > 50
               THEN /\ last.val = 90 + (last.e.responseTime - 50)
                    /\ last.after = last.before
             ELSE IF last.e.schemaHash \notin seen
               THEN /\ last.val = 85
                    /\ Get(last.after.sets, key, {}) = seen \cup {last.e.schemaHash}
                    /\ SameOutside(last.before, last.after, {key})
                    /\ last.after.expiry = last.before.expiry
             ELSE /\ last.val = 10
                  /\ last.after = last.before
    /\ (Reported /\ Len(hist) = 1 /\ last.e.responseTime = 20) =>
          /\ last.report.detectedAnomalies = <<"LATENCY_SPIKE_OR_NEW_SCHEMA">>
          /\ last.report.anomalyScore >= 85

\* A second hash of an endpoint is scored as new while the first is kept.
C14_Witness ==
    /\ last.op = "recon"
    /\ last.val = 85
    /\ Get(last.after.sets, <<"schema_hashes", last.e.endpoint>>, {}) = SchemaHashes

\* ------------------------------------------------------------------------
\* C20: all keys carry an expiry: after any completed detector call every
\* key in the store has a time to live.
C20_AllKeysExpire == \A k \in Keys(store) : k \in DOMAIN store.expiry

\* The counters and the repetitive sets do carry one.
C20_WindowKeysExpire ==
    \A k \in Keys(store) :
        k[1] \in {"rate", "client_error_rate", "server_error_rate", "repetitive"} =>
            k \in DOMAIN store.expiry

\* ------------------------------------------------------------------------
\* C21: a crash between store operations is a bounded inconsistency: when a
\* rate, error-rate or repetitive call stops after one of its store
\* operations and before the next, every key it touched that exists carries
\* a time to live (and so expires).
C21_CrashKeepsExpiry ==
    last.op = "crash" =>
        \A k \in last.did : k \in Keys(last.after) => k \in DOMAIN last.after.expiry

\* A key that carried a time to live when the call first touched it still
\* carries it after the crash.
C21_PriorExpiryKept ==
    (last.op = "crash" /\ last.ttl) =>
        \A k \in last.did : k \in Keys(last.after) => k \in DOMAIN last.after.expiry

\* ------------------------------------------------------------------------
\* C22: rate counting is safe without in-process locking: in every
\* interleaving of K calls of checkSuddenSpikesInRequests for one endpoint
\* and minute while the key is alive, the calls read the distinct counts
\* 1..K, a call returns an anomaly exactly when the count it read is above
\* the threshold T (so max(0, K - T) of K returned calls do), and the expiry
\* is set by one call only, the one that read 1.

\* The calls that incremented the counter of endpoint ep: those that
\* returned (positions of hist) and those in progress (workers).
RateReturned(ep) == {i \in DOMAIN hist : hist[i].e.endpoint = ep}
RateInProgress(ep) == {w \in Workers : wk[w].pc = "rate_incr" /\ wk[w].e.endpoint = ep}

C22_CountsOf(ep) ==
    LET R == RateReturned(ep)
        P == RateInProgress(ep)
        K == Cardinality(R) + Cardinality(P)
        fired == {i \in R : hist[i].anomaly = <<"INCREASED_REQUEST_RATE">>}
        setters == {i \in R : hist[i].expired}
    IN /\ {hist[i].n : i \in R} \cup {wk[w].n : w \in P} = 1..K
       /\ \A i, j \in R : i # j => hist[i].n # hist[j].n
       /\ \A v, w \in P : v # w => wk[v].n # wk[w].n
       /\ \A i \in R, w \in P : hist[i].n # wk[w].n
       /\ \A i \in R : hist[i].anomaly # <<>> <=> i \in fired
       /\ fired = {i \in R : hist[i].n > requestRateThreshold}
       /\ P = {} =>
             Cardinality(fired) = (IF K > requestRateThreshold
                                     THEN K - requestRateThreshold ELSE 0)
       /\ Cardinality(setters) <= 1
       /\ \A i \in setters : hist[i].n = 1
       /\ (<<"rate", ep, 0>> \in DOMAIN store.expiry) <=> setters # {}

C22_RateCountingLinearizable == \A ep \in Endpoints : C22_CountsOf(ep)

\* T + 1 calls for one endpoint ran at the same time, the call that read 1
\* returned last, and exactly one of them returned an anomaly.
C22_Witness ==
    /\ Len(hist) = requestRateThreshold + 1
    /\ \A i \in DOMAIN hist : hist[i].e.endpoint = "/a"
    /\ hist[Len(hist)].n = 1 /\ hist[Len(hist)].expired
    /\ Cardinality({i \in DOMAIN hist : hist[i].anomaly # <<>>}) = 1
    /\ \A w \in Workers : wk[w].pc = "idle"

\* ------------------------------------------------------------------------
\* C23: the latency window under concurrency: in every interleaving of
\* calls of checkDelayResponseSpikes for one endpoint, a call that evaluates
\* (does not return early) computes its mean over exactly N values: the
\* list it reads with LRANGE holds N entries.
C23_MeanOverWindow ==
    (last.op = "latency_step" /\ last.evaluated) =>
        Len(last.latencies) = requestWindowSize

\* The list never holds more than N entries once a call has trimmed it and
\* no other call has pushed since.
C23_TrimmedToWindow ==
    (\A w \in Workers : wk[w].pc # "lat_push") =>
        \A k \in DOMAIN store.lists : Len(store.lists[k]) <= requestWindowSize

\* ------------------------------------------------------------------------
\* C24: the repetitive count matches its reported window even for
\* out-of-order events: for the calls of one (client, endpoint), in any
\* arrival order, with pairwise different request ids and arriving less
\* than the window apart (the key does not expire between them), the count
\* a call with timestamp t compares with the threshold is the number of
\* recorded calls whose timestamps lie in (t - window, t].
ArrivedInsideWindow ==
    \A i, j \in DOMAIN hist : hist[i].at - hist[j].at < RepetitiveWindow(impl)

\* The recorded calls whose timestamps lie in the window that ends with the
\* timestamp of the latest call.
InWindowOfLast ==
    {i \in DOMAIN hist : /\ hist[i].e.timestamp > last.e.timestamp - RepetitiveWindow(impl)
                         /\ hist[i].e.timestamp <= last.e.timestamp}

C24_CountMatchesWindow ==
    (last.op = "repetitive" /\ impl # "main" /\ PairwiseDistinctIds /\ ArrivedInsideWindow) =>
        last.count = Cardinality(InWindowOfLast)

\* The same for calls that arrive in the order of their timestamps.
C24_InOrderCountMatches ==
    (/\ last.op = "repetitive" /\ impl # "main" /\ PairwiseDistinctIds /\ ArrivedInsideWindow
     /\ \A i, j \in DOMAIN hist : i < j => hist[i].e.timestamp <= hist[j].e.timestamp) =>
        last.count = Cardinality(InWindowOfLast)

\* =========================================================================
\* Properties of the manager
\* =========================================================================

\* A step in which a call returns its dictionary.
Answers == out' # out /\ out'.kind = "result"

OtherBuffersKept(e) ==
    \A x \in MgrEndpoints \ {e} : new_endpoint_buffer'[x] = new_endpoint_buffer[x]

\* ------------------------------------------------------------------------
\* C11: scenario 5, sequential calls. A successful call to an endpoint that
\* is not known and whose buffer is shorter than B - 1 is answered normal,
\* endpoint_buffered (n/B), n the new buffer length, and changes only that
\* buffer; the successful call that brings the buffer to B adds the
\* endpoint to the known set, appends exactly the B buffered embeddings to
\* the reference set, retrains, recomputes the threshold for the new
\* weights and reference set and clears the buffer; a call to a known
\* endpoint is answered known_endpoint by comparing its error with the
\* threshold and changes nothing.
C11_Buffered ==
    LET e == out'.endpoint
    IN /\ out'.decision = "normal"
       /\ e \notin dynamic_known_endpoints'
       /\ new_endpoint_buffer'[e] = Append(new_endpoint_buffer[e], out'.emb)
       /\ out'.n = Len(new_endpoint_buffer'[e])
       /\ out'.n < PROMOTE_BUFFER_SIZE /\ out'.size = PROMOTE_BUFFER_SIZE
       /\ OtherBuffersKept(e)
       /\ AdaptationState' = AdaptationState

C11_Promoted ==
    LET e == out'.endpoint
        buf == new_endpoint_buffer[e]
    IN /\ out'.decision = "normal"
       /\ e \notin pre.known
       /\ Len(buf) = PROMOTE_BUFFER_SIZE /\ buf[Len(buf)] = out'.emb
       /\ dynamic_known_endpoints' = pre.known \cup {e}
       /\ normals' = pre.normals \o buf
       /\ weights' = pre.weights + FineTuneSteps
       /\ threshold'.w = weights' /\ threshold'.n = Len(normals')
       /\ new_endpoint_buffer'[e] = <<>>
       /\ OtherBuffersKept(e)

C11_Known ==
    /\ out'.endpoint \in dynamic_known_endpoints
    /\ out'.decision = Decide(th[out'.t].err, threshold)
    /\ new_endpoint_buffer' = new_endpoint_buffer
    /\ AdaptationState' = AdaptationState

C11_Scenario5 ==
    [][Answers =>
          /\ out'.status = "endpoint_buffered" => C11_Buffered
          /\ out'.status = "endpoint_promoted_and_model_retrained" => C11_Promoted
          /\ out'.status = "known_endpoint" => C11_Known
          /\ th[out'.t].status = 200 => out'.status # "unknown_endpoint_error"
          /\ (out'.endpoint \in dynamic_known_endpoints
                 /\ out'.status # "endpoint_promoted_and_model_retrained") =>
                out'.status = "known_endpoint"]_vars

\* An endpoint that was promoted is answered known_endpoint.
C11_Witness ==
    /\ out.kind = "result"
    /\ out.status = "known_endpoint"
    /\ out.endpoint \notin ArtifactKnown
    /\ Len(normals) = 1 + PROMOTE_BUFFER_SIZE
\* ------------------------------------------------------------------------
\* C12: a call with a status other than 200 that finds its endpoint not in
\* the known set is answered anomaly, unknown_endpoint_error, and its
\* answering step leaves the buffers, the known set, the reference set, the
\* weights and the threshold unchanged; only successful calls append to a
\* buffer, and an endpoint is promoted only when its buffer holds at least
\* B embeddings.
FailingUnknown(t) == th[t].pc = "append" /\ th[t].status # 200

C12_FailingCallNotCounted ==
    [][/\ \A t \in Threads :
             (FailingUnknown(t) /\ th'[t] # th[t]) =>
                 /\ out'.kind = "result" /\ out'.t = t
                 /\ out'.decision = "anomaly"
                 /\ out'.status = "unknown_endpoint_error"
                 /\ new_endpoint_buffer' = new_endpoint_buffer
                 /\ AdaptationState' = AdaptationState
                 /\ AdaptationState' = pre
       /\ (out' # out /\ out'.kind = "result" /\ out'.status = "unknown_endpoint_error") =>
             FailingUnknown(out'.t)
       /\ \A e \in MgrEndpoints :
             Len(new_endpoint_buffer'[e]) > Len(new_endpoint_buffer[e]) =>
                 \E t \in Threads : /\ lock = t /\ th[t].pc = "append"
                                     /\ th[t].endpoint = e /\ th[t].status = 200
       /\ \A e \in dynamic_known_endpoints' \ dynamic_known_endpoints :
             Len(new_endpoint_buffer[e]) >= PROMOTE_BUFFER_SIZE]_vars

\* A failing call arrives while its endpoint's buffer holds an embedding.
C12_Witness ==
    /\ out.kind = "result"
    /\ out.status = "unknown_endpoint_error"
    /\ new_endpoint_buffer[out.endpoint] # <<>>
    /\ out.endpoint \notin dynamic_known_endpoints
\* ------------------------------------------------------------------------
\* C15: model-unavailable degradation: when the model artifact is missing
\* or corrupt at startup the construction of the manager does not raise,
\* and every later call returns the "Model not loaded." result and leaves
\* the buffers, the known set, the reference set and the threshold alone.
C15_CallsDegrade ==
    (ae = "None" /\ nCalls' # nCalls) =>
        /\ out'.kind = "error" /\ out'.msg = "Model not loaded."
        /\ new_endpoint_buffer' = new_endpoint_buffer
        /\ AdaptationState' = AdaptationState

C15_ModelUnavailableDegrades ==
    [][/\ out'.kind # "init_raised"
       /\ (out' # out /\ out'.kind = "constructed" /\ out'.artifact # "present") =>
             ae' = "None"
       /\ C15_CallsDegrade]_vars
\* ------------------------------------------------------------------------
\* C16: lock discipline: every step of a call that reads or writes the
\* adaptation state (weights, reference set, threshold, known set,
\* buffers) is taken by a thread that holds the lock.
Steps(t) == th'[t] # th[t]

C16_WritesUnderLock ==
    \A t \in Threads : (Steps(t) /\ Writes(t) # {}) => lock = t

C16_LockDiscipline ==
    [][\A t \in Threads : (Steps(t) /\ Touches(t) # {}) => lock = t]_vars
\* ------------------------------------------------------------------------
\* C17: weights and threshold form one atomic version: a call that decides
\* normal/anomaly for a known endpoint, no other call for that endpoint
\* being in progress, uses an error computed with the
\* weights of a completed retraining (never weights between two optimizer
\* steps of a pass) and compares it with the threshold computed for those
\* same weights.
C17_AtomicVersion ==
    [][(/\ Answers /\ out'.status = "known_endpoint"
        /\ \A u \in Threads \ {out'.t} : th[u].endpoint # out'.endpoint) =>
          LET err == th[out'.t].err
          IN /\ err.w % FineTuneSteps = 0
             /\ err.w = threshold.w]_vars
\* ------------------------------------------------------------------------
\* C18: promotions are mutually exclusive: at most one thread is in the
\* section from the buffer append to the buffer clear, and it holds the
\* lock; the reference set changes only by that thread appending the
\* promoted buffer to it, a completed promotion leaves the reference set
\* it found extended by exactly its buffer, and no embedding enters the
\* reference set twice.
InSection(t) == th[t].pc \in {"append", "promote", "cat", "train", "clear"}

NoDuplicates(q) == \A i, j \in DOMAIN q : i # j => q[i] # q[j]

C18_Exclusive ==
    /\ Cardinality({t \in Threads : InSection(t)}) <= 1
    /\ \A t \in Threads : InSection(t) <=> lock = t

C18_PromotionsExclusive ==
    /\ []C18_Exclusive
    /\ []NoDuplicates(normals)
    /\ [][/\ normals' # normals =>
                \E t \in Threads :
                    /\ lock = t /\ th[t].pc = "cat" /\ lock' = t
                    /\ normals' = normals \o new_endpoint_buffer[th[t].endpoint]
          /\ (Answers /\ out'.status = "endpoint_promoted_and_model_retrained") =>
                /\ lock = out'.t
                /\ normals' = pre.normals \o new_endpoint_buffer[out'.endpoint]
                /\ weights' = pre.weights + FineTuneSteps
                /\ threshold'.w = weights' /\ threshold'.n = Len(normals')]_vars
\* ------------------------------------------------------------------------
\* C19: Known is irreversible: the known set only grows, and a call that
\* makes the test of line 86 when its endpoint is in the known set (every
\* call that starts after the endpoint became known does) is answered
\* known_endpoint.
C19_KnownIrreversible ==
    [][/\ dynamic_known_endpoints \subseteq dynamic_known_endpoints'
       /\ \A t \in Threads :
             (Steps(t) /\ th[t].pc = "check"
                 /\ th[t].endpoint \in dynamic_known_endpoints) =>
                 /\ out'.kind = "result" /\ out'.t = t
                 /\ out'.endpoint = th[t].endpoint
                 /\ out'.status = "known_endpoint"
       /\ \A t \in Threads :
             (Steps(t) /\ th[t].pc = "idle") => th'[t].pc = "check"]_vars

\* An endpoint whose promotion raised is answered known_endpoint afterwards.
C19_Witness ==
    /\ out.kind = "result"
    /\ out.status = "known_endpoint"
    /\ out.endpoint \notin ArtifactKnown
    /\ threshold.w = 0

\* ------------------------------------------------------------------------
\* C25: lock liveness: under fair scheduling, with every retraining step
\* finishing or raising, every started call eventually returns or raises,
\* and the lock, once taken, is eventually free again; a call that raises
\* inside the critical section leaves the lock free.
C25_LockLiveness ==
    /\ \A t \in Threads : (th[t].pc # "idle") ~> (th[t].pc = "idle")
    /\ (lock # NoThread) ~> (lock = NoThread)
    /\ [][(out' # out /\ out'.kind = "raised") => lock' = NoThread]_vars

\* After a retraining raised between two optimizer steps, a call for an
\* unknown endpoint took the lock, was answered and left the lock free.
C25_Witness ==
    /\ weights % FineTuneSteps # 0
    /\ out.kind = "result"
    /\ out.status \in {"endpoint_buffered", "unknown_endpoint_error"}
    /\ lock = NoThread

====
